---------------------------- MODULE Spec2Model ----------------------------
(***************************************************************************)
(* A model of the rqlite client: the connection builder and the            *)
(* Connection's request path (src/src/connect.rs), the column type parser  *)
(* (src/src/types.rs) and the row accessor (src/src/row.rs).               *)
(*                                                                         *)
(* Four specifications share the module:                                   *)
(*   Spec       the builder, connect(), and the cluster/statement calls    *)
(*              made by concurrent tasks on the Connection;                *)
(*   SpecTypes  parse_vec_types / get_type on bounded tag lists;           *)
(*   SpecRow    Row::get on bounded rows;                                  *)
(*   SpecNodes  the decoding half of Connection::nodes on bounded bodies.  *)
(*                                                                         *)
(* Text (JSON strings and keys, header values, request bodies) is a        *)
(* sequence of code points; the comment beside a literal gives its text.   *)
(***************************************************************************)
EXTENDS Integers, Sequences, FiniteSets, TLC

VARIABLES
    opts,       \* the ConnectOptions builder the application holds
    conn,       \* the live Connection (settings snapshot, driver task, channel)
    pc,         \* per task: where it is (see Spec)
    call,       \* per task: the call it is making or has just finished
    tyIn,       \* SpecTypes: the Option<Vec<String>> handed to parse_vec_types
    tyOut,      \* SpecTypes: its result
    row,        \* SpecRow: the Row's values
    row0,       \* SpecRow: the values the Row was constructed with
    rowGet,     \* SpecRow: the last get call and its result
    nbody,      \* SpecNodes: the response body handed to the decoder
    nout        \* SpecNodes: the decoder's result

vars == <<opts, conn, pc, call, tyIn, tyOut, row, row0, rowGet, nbody, nout>>

----------------------------------------------------------------------------
(* serde_json::Value.  A number is an integer (JNum) or an f64 (JFloat):   *)
(* the f64 of sign neg and magnitude (hi * 2^27 + lo) * 2^e, its 53-bit    *)
(* mantissa held in two parts, 0 <= hi < 2^26 and 0 <= lo < 2^27.          *)

JNull == [t |-> "null"]
JBool(b) == [t |-> "bool", b |-> b]
JNum(n) == [t |-> "num", n |-> n]
JFloat(neg, hi, lo, e) == [t |-> "float", neg |-> neg, hi |-> hi, lo |-> lo, e |-> e]
JStr(s) == [t |-> "str", s |-> s]
JArr(a) == [t |-> "arr", a |-> a]
JObj(o) == [t |-> "obj", o |-> o]

(* Result values. *)
Ok(v) == [ok |-> TRUE, val |-> v]
Err(e) == [ok |-> FALSE, err |-> e]

None == [some |-> FALSE]
Some(v) == [some |-> TRUE, v |-> v]

NoOut == [kind |-> "none"]

RECURSIVE SeqsUpTo(_, _)
SeqsUpTo(S, n) ==
    IF n = 0 THEN {<<>>}
    ELSE LET shorter == SeqsUpTo(S, n - 1)
         IN  shorter \cup {Append(q, x) : q \in {p \in shorter : Len(p) = n - 1}, x \in S}

----------------------------------------------------------------------------
(* src/src/types.rs *)

\* The tags tried: the five known ones, and unknown ones (other case, other word).
Tags == {"", "integer", "real", "text", "blob", "INTEGER", "Text", "int"}

\* Longest tag list tried.
MaxTypes == 3

get_type_AnyCase(tag) ==
    CASE tag = "" -> Ok("Null")
      [] tag \in {"integer", "INTEGER"} -> Ok("Integer")
      [] tag = "real" -> Ok("Real")
      [] tag \in {"text", "Text"} -> Ok("Text")
      [] tag = "blob" -> Ok("Blob")
      [] OTHER -> Err("unit")

get_type(tag) ==
    CASE tag = "" -> Ok("Null")
      [] tag = "integer" -> Ok("Integer")
      [] tag = "real" -> Ok("Real")
      [] tag = "text" -> Ok("Text")
      [] tag = "blob" -> Ok("Blob")
      [] OTHER -> Err("unit")

\* The loop of parse_vec_types: push get_type(s_vec[i]) for i = 0.., and return
\* the custom error at the first tag get_type refuses.
RECURSIVE ParseLoop(_, _, _)
ParseLoop(s_vec, i, vec) ==
    IF i > Len(s_vec) THEN Ok(Some(vec))
    ELSE LET r == get_type(s_vec[i])
         IN  IF r.ok THEN ParseLoop(s_vec, i + 1, Append(vec, r.val))
             ELSE Err([msg |-> "Unknewn sqlite type", tag |-> s_vec[i]])

parse_vec_types(s) ==
    IF s.some THEN ParseLoop(s.v, 1, <<>>) ELSE Ok(None)

----------------------------------------------------------------------------
(* src/src/row.rs *)

\* Longest row tried, and the largest index asked for.
MaxRow == 2
MaxIndex == 3

RowValues == {JNull, JNum(1), JFloat(FALSE, 0, 3, -1), JStr(<<102, 105, 111, 110, 97>>), JBool(TRUE)}
GetTypes == {"i64", "String", "bool"}

\* The call did not return: the thread panicked.
Panic == [ok |-> FALSE, err |-> [kind |-> "PANIC"]]

\* self.row[id]: Vec indexing panics out of bounds.
RowIndex(r, id) ==
    IF id < Len(r) THEN [panic |-> FALSE, v |-> r[id + 1]] ELSE [panic |-> TRUE]

\* serde_json::from_value::<T>(value) for the target types tried: an i64 takes
\* an integer number (not a float), a String a string, a bool a boolean.
from_value(T, v) ==
    CASE T = "i64" /\ v.t = "num" -> Ok(v.n)
      [] T = "String" /\ v.t = "str" -> Ok(v.s)
      [] T = "bool" /\ v.t = "bool" -> Ok(v.b)
      [] OTHER -> Err([kind |-> "serde", expected |-> T])

Row_get_OffByOne(r, id, T) ==
    IF id > Len(r)
    THEN Err([kind |-> "NotFound", id |-> id])
    ELSE LET e == RowIndex(r, id)
         IN  IF e.panic THEN Panic ELSE from_value(T, e.v)

Row_get(r, id, T) ==
    IF id >= Len(r)
    THEN Err([kind |-> "NotFound", id |-> id])
    ELSE LET e == RowIndex(r, id)
         IN  IF e.panic THEN Panic ELSE from_value(T, e.v)

Row_new(values) == values

----------------------------------------------------------------------------
(* RqliteError (its variants as src/src/connect.rs builds them; the message *)
(* strings they carry are left out).                                        *)

AuthError == [kind |-> "AuthError"]
ConnectionError == [kind |-> "Connection"]
DataSer == [kind |-> "DataSer"]
SqlError == [kind |-> "SqlError"]
Pending == [ok |-> FALSE, err |-> [kind |-> "Pending"]]

----------------------------------------------------------------------------
(* Text, and the order of the keys of a serde_json::Map *)

Min2(a, b) == IF a < b THEN a ELSE b
Max2(a, b) == IF a > b THEN a ELSE b

\* String's Ord: byte-wise lexicographic, which on code points is the same.
LexLess(a, b) ==
    \/ /\ Len(a) < Len(b)
       /\ \A i \in 1..Len(a) : a[i] = b[i]
    \/ \E i \in 1..Min2(Len(a), Len(b)) :
          /\ a[i] < b[i]
          /\ \A j \in 1..(i - 1) : a[j] = b[j]

\* The first key of a non-empty set in the map's (BTreeMap) iteration order.
FirstKey(keys) == CHOOSE k \in keys : \A j \in keys \ {k} : LexLess(k, j)

----------------------------------------------------------------------------
(* f32: the field `time` of _Node.  An f32 is held as sign, odd mantissa    *)
(* and exponent (m * 2^e; zero is m = 0, e = 0), or as an infinity.         *)

F32(neg, m, e) == [neg |-> neg, m |-> m, e |-> e, inf |-> FALSE]
F32Inf(neg) == [neg |-> neg, m |-> 0, e |-> 0, inf |-> TRUE]

RECURSIVE BitLen(_)
BitLen(n) == IF n = 0 THEN 0 ELSE 1 + BitLen(n \div 2)

RECURSIVE F32Normal(_, _, _)
F32Normal(neg, m, e) ==
    IF m = 0 THEN F32(neg, 0, 0)
    ELSE IF m % 2 = 0 THEN F32Normal(neg, m \div 2, e + 1)
    ELSE F32(neg, m, e)

\* (hi * 2^27 + lo) / 2^d rounded to the nearest integer, ties to even; d is
\* large enough for the result to have at most 24 bits (25 after a carry).
RoundShift(hi, lo, d) ==
    CASE d = 0 -> lo
      [] d >= 1 /\ d <= 27 ->
            LET q == hi * 2^(27 - d) + lo \div 2^d
                r == lo % 2^d
                half == 2^(d - 1)
            IN  IF r > half \/ (r = half /\ q % 2 = 1) THEN q + 1 ELSE q
      [] d >= 28 /\ d <= 53 ->
            LET k == d - 27
                q == hi \div 2^k
                r == hi % 2^k
                half == 2^(k - 1)
            IN  IF \/ r > half
                   \/ r = half /\ lo > 0
                   \/ r = half /\ lo = 0 /\ q % 2 = 1
                THEN q + 1 ELSE q
      [] OTHER -> 0

\* `as f32` of the number of sign neg and magnitude (hi * 2^27 + lo) * 2^e:
\* the nearest f32, ties to even; the mantissa keeps 24 bits, fewer below
\* 2^-126 (subnormals, in steps of 2^-149), and a magnitude that rounds to
\* 2^128 or more is an infinity.
ToF32(neg, hi, lo, e) ==
    LET bits == IF hi > 0 THEN 27 + BitLen(hi) ELSE BitLen(lo)
        d == Max2(Max2(bits - 24, (0 - 149) - e), 0)
        q == RoundShift(hi, lo, d)
    IN  IF q = 0 THEN F32(neg, 0, 0)
        ELSE IF BitLen(q) + e + d > 128 THEN F32Inf(neg)
        ELSE F32Normal(neg, q, e + d)

\* A JSON number as an f32: an integer is converted as it is, a float from
\* its f64.
NumberToF32(v) ==
    IF v.t = "num"
    THEN LET mag == IF v.n < 0 THEN 0 - v.n ELSE v.n
         IN  ToF32(v.n < 0, mag \div 2^27, mag % 2^27, 0)
    ELSE ToF32(v.neg, v.hi, v.lo, v.e)

----------------------------------------------------------------------------
(* Connection::nodes, from the response body on *)

api_addr == <<97, 112, 105, 95, 97, 100, 100, 114>>      \* "api_addr"
addr == <<97, 100, 100, 114>>              \* "addr"
reachable == <<114, 101, 97, 99, 104, 97, 98, 108, 101>>    \* "reachable"
leader == <<108, 101, 97, 100, 101, 114>>          \* "leader"
time == <<116, 105, 109, 101>>              \* "time"

NodeFields == <<api_addr, addr, reachable, leader, time>>
FieldType(f) == IF f \in {api_addr, addr} THEN "str"
                ELSE IF f \in {reachable, leader} THEN "bool" ELSE "number"

HasType(v, ty) ==
    CASE ty = "str" -> v.t = "str"
      [] ty = "bool" -> v.t = "bool"
      [] ty = "number" -> v.t \in {"num", "float"}

FieldValue(v) == CASE v.t = "str" -> v.s
                   [] v.t = "bool" -> v.b
                   [] v.t \in {"num", "float"} -> NumberToF32(v)

\* serde_json::from_value::<_Node>: a map needs the five fields with their
\* types (other fields are ignored); a sequence gives them by position and
\* must hold exactly five; anything else is refused.
node_from_value(v) ==
    CASE v.t = "obj" ->
            IF \A i \in DOMAIN NodeFields :
                  /\ NodeFields[i] \in DOMAIN v.o
                  /\ HasType(v.o[NodeFields[i]], FieldType(NodeFields[i]))
            THEN Ok([f \in {NodeFields[i] : i \in DOMAIN NodeFields} |-> FieldValue(v.o[f])])
            ELSE Err(DataSer)
      [] v.t = "arr" ->
            IF /\ Len(v.a) = Len(NodeFields)
               /\ \A i \in DOMAIN NodeFields : HasType(v.a[i], FieldType(NodeFields[i]))
            THEN Ok([f \in {NodeFields[i] : i \in DOMAIN NodeFields} |->
                        FieldValue(v.a[CHOOSE i \in DOMAIN NodeFields : NodeFields[i] = f])])
            ELSE Err(DataSer)
      [] OTHER -> Err(DataSer)

MakeNode(key, de_node) ==
    [id |-> key, api_addr |-> de_node[api_addr], addr |-> de_node[addr],
     reachable |-> de_node[reachable], leader |-> de_node[leader],
     time |-> de_node[time]]

\* The loop over the map's key/value pairs, in the map's order: push a Node
\* per pair, return the DataSer error at the first value that does not
\* deserialize.  keys is the set of keys not yet visited.
RECURSIVE NodesLoop_SkipBad(_, _, _)
NodesLoop_SkipBad(o, keys, node_vec) ==
    IF keys = {} THEN Ok(node_vec)
    ELSE LET key == FirstKey(keys)
             de == node_from_value(o[key])
         IN  IF de.ok
             THEN NodesLoop_SkipBad(o, keys \ {key}, Append(node_vec, MakeNode(key, de.val)))
             ELSE NodesLoop_SkipBad(o, keys \ {key}, node_vec)

RECURSIVE NodesLoop(_, _, _)
NodesLoop(o, keys, node_vec) ==
    IF keys = {} THEN Ok(node_vec)
    ELSE LET key == FirstKey(keys)
             de == node_from_value(o[key])
         IN  IF de.ok
             THEN NodesLoop(o, keys \ {key}, Append(node_vec, MakeNode(key, de.val)))
             ELSE Err(DataSer)

\* The bytes of a response body: whether serde_json::from_slice parses them,
\* and the value they parse to.
Body(valid, json) == [valid |-> valid, json |-> json]
InvalidJson == Body(FALSE, JNull)

\* read_body: to_bytes gives the bytes, or fails and the error is a
\* Connection error.
read_body(got) == IF got.ok THEN Ok(got.val) ELSE Err(ConnectionError)

body(bytes) == IF bytes.valid THEN Ok(bytes.json) ELSE Err(DataSer)

\* nodes(), from the await of read_body on.
nodes_decode(got) ==
    LET bytes == read_body(got)
    IN  IF ~bytes.ok THEN bytes
        ELSE LET json == body(bytes.val)
             IN  IF ~json.ok THEN json
                 ELSE IF json.val.t = "obj"
                      THEN NodesLoop(json.val.o, DOMAIN json.val.o, <<>>)
                      ELSE Err(SqlError)

\* The node descriptions tried as the values of the map: the first node of the
\* documentation (latency 0.000037026), one with an unknown field and an
\* integer latency that is not an f32 (2^24 + 1), one in sequence form
\* (latency 2^25 + 6, halfway between two f32), one without `time`, one whose
\* `leader` is a string, and null.
GoodNode1 ==
    JObj((api_addr :> JStr(<<104, 116, 116, 112, 58, 47, 47, 49, 50, 55, 46, 48, 46, 48, 46, 49, 58, 52, 48, 48, 49>>))
         @@ (addr :> JStr(<<49, 50, 55, 46, 48, 46, 48, 46, 49, 58, 52, 48, 48, 50>>))
         @@ (reachable :> JBool(TRUE))
         @@ (leader :> JBool(TRUE))
         @@ (time :> JFloat(FALSE, 40710517, 71139983, 0 - 67)))
GoodNode2 ==
    JObj((api_addr :> JStr(<<104, 116, 116, 112, 58, 47, 47, 49, 50, 55, 46, 48, 46, 48, 46, 49, 58, 52, 48, 48, 51>>))
         @@ (addr :> JStr(<<49, 50, 55, 46, 48, 46, 48, 46, 49, 58, 52, 48, 48, 52>>))
         @@ (reachable :> JBool(FALSE))
         @@ (leader :> JBool(FALSE))
         @@ (time :> JNum(2^24 + 1))
         @@ (<<118, 111, 116, 101, 114>> :> JBool(TRUE)))
SeqNode ==
    JArr(<<JStr(<<104, 116, 116, 112, 58, 47, 47, 49, 50, 55, 46, 48, 46, 48, 46, 49, 58, 52, 48, 48, 53>>), JStr(<<49, 50, 55, 46, 48, 46, 48, 46, 49, 58, 52, 48, 48, 54>>),
           JBool(TRUE), JBool(FALSE), JNum(2^25 + 6)>>)
NoTimeNode ==
    JObj((api_addr :> JStr(<<104, 116, 116, 112, 58, 47, 47, 49, 50, 55, 46, 48, 46, 48, 46, 49, 58, 52, 48, 48, 49>>))
         @@ (addr :> JStr(<<49, 50, 55, 46, 48, 46, 48, 46, 49, 58, 52, 48, 48, 50>>))
         @@ (reachable :> JBool(TRUE))
         @@ (leader :> JBool(TRUE)))
BadLeaderNode ==
    JObj((api_addr :> JStr(<<104, 116, 116, 112, 58, 47, 47, 49, 50, 55, 46, 48, 46, 48, 46, 49, 58, 52, 48, 48, 49>>))
         @@ (addr :> JStr(<<49, 50, 55, 46, 48, 46, 48, 46, 49, 58, 52, 48, 48, 50>>))
         @@ (reachable :> JBool(TRUE))
         @@ (leader :> JStr(<<121, 101, 115>>))
         @@ (time :> JNum(1)))
NodeValues == {GoodNode1, GoodNode2, SeqNode, NoTimeNode, BadLeaderNode, JNull}

\* The keys tried: "1", "10" and "2" (in the map's order).
NodeKeys == {<<49>>, <<49, 48>>, <<50>>}
NodeMaps == UNION {[ks -> NodeValues] : ks \in SUBSET NodeKeys}
NonObjects == {JNull, JArr(<<>>), JStr(<<111, 107>>), JNum(1)}

NodeBodies ==
    {Body(TRUE, JObj(o)) : o \in NodeMaps}
        \cup {Body(TRUE, v) : v \in NonObjects}
        \cup {InvalidJson}

----------------------------------------------------------------------------
(* UTF-8, base64::encode and serde_json::to_string *)

\* The bytes of a character, and of a text.
Utf8Char(c) ==
    CASE c < 128 -> <<c>>
      [] c >= 128 /\ c < 2048 -> <<192 + c \div 64, 128 + (c % 64)>>
      [] c >= 2048 /\ c < 65536 ->
            <<224 + c \div 4096, 128 + ((c \div 64) % 64), 128 + (c % 64)>>
      [] OTHER ->
            <<240 + c \div 262144, 128 + ((c \div 4096) % 64),
              128 + ((c \div 64) % 64), 128 + (c % 64)>>

RECURSIVE Utf8(_)
Utf8(text) == IF text = <<>> THEN <<>> ELSE Utf8Char(Head(text)) \o Utf8(Tail(text))

\* "ABCDEFGHIJKLMNOPQRSTUVWXYZabcdefghijklmnopqrstuvwxyz0123456789+/"
B64Alphabet ==
    <<65, 66, 67, 68, 69, 70, 71, 72, 73, 74, 75, 76, 77, 78, 79, 80, 81, 82, 83, 84, 85, 86, 87, 88, 89, 90, 97, 98, 99, 100, 101, 102, 103, 104, 105, 106, 107, 108, 109, 110, 111, 112, 113, 114, 115, 116, 117, 118, 119, 120, 121, 122, 48, 49, 50, 51, 52, 53, 54, 55, 56, 57, 43, 47>>

B64Char(sextet) == B64Alphabet[sextet + 1]

\* Standard base64 with padding: three bytes give four characters; one or two
\* trailing bytes give two or three characters and "=" (61) up to four.
RECURSIVE base64_encode(_)
base64_encode(bytes) ==
    CASE Len(bytes) = 0 -> <<>>
      [] Len(bytes) = 1 ->
            <<B64Char(bytes[1] \div 4), B64Char((bytes[1] % 4) * 16), 61, 61>>
      [] Len(bytes) = 2 ->
            <<B64Char(bytes[1] \div 4),
              B64Char((bytes[1] % 4) * 16 + bytes[2] \div 16),
              B64Char((bytes[2] % 16) * 4), 61>>
      [] OTHER ->
            <<B64Char(bytes[1] \div 4),
              B64Char((bytes[1] % 4) * 16 + bytes[2] \div 16),
              B64Char((bytes[2] % 16) * 4 + bytes[3] \div 64),
              B64Char(bytes[3] % 64)>>
                \o base64_encode(SubSeq(bytes, 4, Len(bytes)))

HexDigit(n) == IF n < 10 THEN 48 + n ELSE 87 + n     \* "0".."9", "a".."f"

\* serde_json's string escapes: the quote and the backslash, \b \t \n \f \r,
\* and \u00XX for the other characters below the space; every other character
\* is written as it is.
EscapeChar(c) ==
    CASE c = 34 -> <<92, 34>>         \* \"
      [] c = 92 -> <<92, 92>>         \* \\
      [] c = 8 -> <<92, 98>>
      [] c = 9 -> <<92, 116>>
      [] c = 10 -> <<92, 110>>
      [] c = 12 -> <<92, 102>>
      [] c = 13 -> <<92, 114>>
      [] c < 32 /\ c \notin {8, 9, 10, 12, 13} ->
            <<92, 117, 48, 48>> \o <<HexDigit(c \div 16), HexDigit(c % 16)>>
      [] OTHER -> <<c>>

RECURSIVE EscapeAll(_)
EscapeAll(text) ==
    IF text = <<>> THEN <<>> ELSE EscapeChar(Head(text)) \o EscapeAll(Tail(text))

Quote(text) == <<34>> \o EscapeAll(text) \o <<34>>

RECURSIVE Digits(_)
Digits(n) == IF n < 10 THEN <<48 + n>> ELSE Digits(n \div 10) \o <<48 + (n % 10)>>

IntText(n) == IF n < 0 THEN <<45>> \o Digits(0 - n) ELSE Digits(n)

\* The digits serde_json prints for an f64 (the shortest that read back as
\* the same f64) are not computed: the text holds the float as one item.
FloatText(v) == <<[float |-> v]>>

\* serde_json::to_string on a Value: it writes every Value and never fails.
\* An object's members are written in the order of the map.
RECURSIVE to_string(_)
RECURSIVE to_string_items(_, _)
RECURSIVE to_string_members(_, _, _)
to_string_items(a, i) ==
    IF i > Len(a) THEN <<>>
    ELSE (IF i > 1 THEN <<44>> ELSE <<>>) \o to_string(a[i]).val \o to_string_items(a, i + 1)

to_string_members(o, keys, first) ==
    IF keys = {} THEN <<>>
    ELSE LET key == FirstKey(keys)
         IN  (IF first THEN <<>> ELSE <<44>>) \o Quote(key) \o <<58>> \o to_string(o[key]).val
                \o to_string_members(o, keys \ {key}, FALSE)

to_string(v) ==
    CASE v.t = "null" -> Ok(<<110, 117, 108, 108>>)
      [] v.t = "bool" -> Ok(IF v.b THEN <<116, 114, 117, 101>> ELSE <<102, 97, 108, 115, 101>>)
      [] v.t = "num" -> Ok(IntText(v.n))
      [] v.t = "float" -> Ok(FloatText(v))
      [] v.t = "str" -> Ok(Quote(v.s))
      [] v.t = "arr" -> Ok(<<91>> \o to_string_items(v.a, 1) \o <<93>>)
      [] v.t = "obj" -> Ok(<<123>> \o to_string_members(v.o, DOMAIN v.o, TRUE) \o <<125>>)

----------------------------------------------------------------------------
(* ConnectOptions and Connection (src/src/connect.rs) *)

ConnectOptions_new(host, port) ==
    [scheme |-> "HTTP", host |-> host, port |-> port, user |-> None, pass |-> None,
     accept_invalid_cert |-> FALSE]

ConnectOptions_scheme(o, scheme) == [o EXCEPT !.scheme = scheme]

ConnectOptions_user(o, u) == [o EXCEPT !.user = Some(u)]

ConnectOptions_pass(o, p) == [o EXCEPT !.pass = Some(p)]

ConnectOptions_accept_invalid_cert(o, accept) == [o EXCEPT !.accept_invalid_cert = accept]

\* The end of connect(): the handshake has given the request sender and the
\* driver task, which is spawned; the Connection keeps a clone of the options.
\* sendFailed and recovered are history, not fields of the Connection:
\* whether a send_request on it has returned an error, and whether a request
\* sent after such an error has been answered.
ConnectOptions_connect(o) ==
    [live |-> TRUE, settings |-> o, driver |-> "running", sendFailed |-> FALSE,
     recovered |-> FALSE]

\* TcpStream::connect(format!("{}:{}", host, port)) can only succeed when the
\* host is an address or a name that resolves, which no text holding a
\* control character, a space or DEL does.
HostResolves(host) ==
    /\ host # <<>>
    /\ \A i \in DOMAIN host : host[i] > 32 /\ host[i] # 127

\* Request::builder().method(m).uri(u).  The builder keeps the first error
\* among its parts; the methods and paths used here are valid.
EmptyHeaders == [h \in {} |-> <<>>]
Request_builder(method, uri) ==
    [method |-> method, uri |-> uri, headers |-> EmptyHeaders, err |-> FALSE]

\* A String is a header value when each of its bytes is a tab or a visible
\* character (32 and above, except 127).
HeaderValueOk(value) ==
    \A i \in DOMAIN value : (value[i] >= 32 /\ value[i] # 127) \/ value[i] = 9

Builder_header(req_builder, name, value) ==
    IF req_builder.err THEN req_builder
    ELSE IF ~HeaderValueOk(value) THEN [req_builder EXCEPT !.err = TRUE]
    ELSE [req_builder EXCEPT !.headers = (name :> value) @@ @]

base_headers(settings, req_builder) ==
    Builder_header(
        Builder_header(req_builder, "Host", settings.host \o <<58>> \o Digits(settings.port)),
        "Content-Type", <<97, 112, 112, 108, 105, 99, 97, 116, 105, 111, 110, 47, 106, 115, 111, 110>>)

Basic == <<66, 97, 115, 105, 99, 32>>      \* "Basic "

auth_Partial(settings, req_builder) ==
    IF settings.user.some \/ settings.pass.some
    THEN Builder_header(req_builder, "Authorization",
            Basic \o base64_encode(Utf8(
                (IF settings.user.some THEN settings.user.v ELSE <<>>) \o <<58>>
                    \o (IF settings.pass.some THEN settings.pass.v ELSE <<>>))))
    ELSE req_builder

auth(settings, req_builder) ==
    IF settings.user.some /\ settings.pass.some
    THEN Builder_header(req_builder, "Authorization",
            Basic \o base64_encode(Utf8(settings.user.v \o <<58>> \o settings.pass.v)))
    ELSE req_builder

check_auth_From401(status_code) ==
    IF status_code >= 401 THEN Err(AuthError) ELSE Ok("unit")

check_auth(status_code) ==
    IF status_code = 401 THEN Err(AuthError) ELSE Ok("unit")

\* Builder::body: the request, or the error the builder holds.
EmptyBody == <<>>
Builder_body(req_builder, payload) ==
    IF req_builder.err THEN Err("http")
    ELSE Ok([method |-> req_builder.method, uri |-> req_builder.uri,
             headers |-> req_builder.headers, body |-> payload])

\* request(), up to the call of send_request: the body, when there is one, is
\* serialized; a failure of the serializer or of the builder returns DataSer
\* before anything is sent.  The result is the request handed to send_request.
request_build(req_builder, payload) ==
    LET text == IF payload.some THEN to_string(payload.v) ELSE Ok(EmptyBody)
    IN  IF ~text.ok THEN Err(DataSer)
        ELSE LET req == Builder_body(req_builder, text.val)
             IN  IF req.ok THEN req ELSE Err(DataSer)

\* request(), from the answer of send_request on: an error becomes a
\* Connection error, a response goes through check_auth and is returned.
request_finish_AsDataSer(sent) ==
    IF ~sent.ok THEN Err(DataSer)
    ELSE LET a == check_auth(sent.val.status)
         IN  IF a.ok THEN Ok(sent.val) ELSE a

request_finish_Default(sent) ==
    IF ~sent.ok THEN Ok([status |-> 0, body |-> InvalidJson])
    ELSE LET a == check_auth(sent.val.status)
         IN  IF a.ok THEN Ok(sent.val) ELSE a

request_finish(sent) ==
    IF ~sent.ok THEN Err(ConnectionError)
    ELSE LET a == check_auth(sent.val.status)
         IN  IF a.ok THEN Ok(sent.val) ELSE a

\* The request each call builds.
ready_request(settings) ==
    [builder |-> auth(settings, base_headers(settings, Request_builder("GET", "/readyz"))),
     body |-> None]

remove_request_NoBody(settings, id) ==
    [builder |-> auth(settings, base_headers(settings, Request_builder("DELETE", "/remove"))),
     body |-> None]

remove_request(settings, id) ==
    [builder |-> auth(settings, base_headers(settings, Request_builder("DELETE", "/remove"))),
     body |-> Some(JObj(<<105, 100>> :> JStr(id)))]

nodes_request(settings, show_nonvoters) ==
    [builder |-> auth(settings, base_headers(settings,
                    Request_builder("GET", IF show_nonvoters THEN "/nodes?nonvoters"
                                                             ELSE "/nodes"))),
     body |-> None]

\* Cursor::execute is not in src/: from the specification, the statement goes
\* to the statement endpoint through request(), its body the array of the SQL
\* text and the parameters, with the headers every request gets.
execute_request(settings, stmt) ==
    [builder |-> auth(settings, base_headers(settings,
                    Request_builder("POST", "<statement-endpoint>"))),
     body |-> Some(JArr(<<JStr(stmt.sql)>> \o stmt.params))]

\* What ready() and remove() make of request()'s result.
ready_finish_AnyStatus(r) ==
    IF ~r.ok THEN r
    ELSE Ok(TRUE)

ready_finish(r) ==
    IF ~r.ok THEN r
    ELSE IF r.val.status # 200 THEN Ok(FALSE) ELSE Ok(TRUE)

remove_finish(r) ==
    IF ~r.ok THEN r
    ELSE IF r.val.status # 200 THEN Ok(FALSE) ELSE Ok(TRUE)

\* From the specification: the body is read and decoded; a top-level value
\* that is not an object is a SqlError; otherwise the cursor holds the result.
execute_decode(got) ==
    LET bytes == read_body(got)
    IN  IF ~bytes.ok THEN bytes
        ELSE LET json == body(bytes.val)
             IN  IF ~json.ok THEN json
                 ELSE IF json.val.t = "obj" THEN Ok("Cursor") ELSE Err(SqlError)

----------------------------------------------------------------------------
(* Spec: the builder, connect(), and the calls of concurrent tasks *)

\* Tasks that may call into the builder and the one Connection.
NumTasks == 2
Tasks == 1..NumTasks

\* The inputs tried: a host that resolves and one no header can carry; the
\* credentials "ab" and "pw"; a node id with characters JSON escapes (quote,
\* backslash, tab, U+0001); a statement with an integer and a string
\* parameter; and the statuses and bodies the server answers with (bytes that
\* are not JSON, and a map of one node).
Hosts == {<<49, 50, 55, 46, 48, 46, 48, 46, 49>>, <<98, 97, 100, 10, 104, 111, 115, 116>>}
Ports == {4001}
Schemes == {"HTTP", "HTTPS"}
Users == {<<97, 98>>}
Passes == {<<112, 119>>}
NodeIds == {<<110, 117, 109, 53, 34, 92, 9, 1>>}
Statements == {[sql |-> <<83, 69, 76, 69, 67, 84, 32, 63, 44, 32, 63>>, params |-> <<JNum(1), JStr(<<102, 105, 111, 110, 97>>)>>]}
Statuses == {200, 401, 503}
Bodies == {InvalidJson, Body(TRUE, JObj(<<49>> :> GoodNode1))}

\* A task's call: the operation and its argument, the requests handed to the
\* channel, whether the driver had terminated (dead) and whether the
\* Connection was Failed (failed) when the call began, what the server
\* answered, the local `resp` (the response request() returned), and the
\* result.
NoCall == [op |-> "none", arg |-> None, reqs |-> <<>>, dead |-> FALSE,
           failed |-> FALSE, answer |-> None, resp |-> None, res |-> Pending]

\* The lifecycle state Failed of the specification: the driver task has
\* terminated, or a send on this Connection has returned an error.
Failed == conn.live /\ (conn.driver = "terminated" \/ conn.sendFailed)

Connecting == {"connect_tcp", "connect_tls", "connect_handshake"}

\* connect() and the setters take &mut self on the builder: while a connect()
\* is in progress nothing else can use it.
BuilderFree == \A u \in Tasks : pc[u] \notin Connecting

\* Every call takes &mut self on the Connection (and a Cursor keeps the &mut
\* Connection it was made from): a task gets the Connection only while no
\* task holds it.
HoldsConn(u) == pc[u] \in {"awaiting", "reading", "returned", "cursor"}

CanBorrowShared(t) == pc[t] = "idle"

CanBorrowMut(t) == pc[t] = "idle" /\ \A u \in Tasks : ~HoldsConn(u)

Init ==
    /\ opts \in {ConnectOptions_new(host, port) : host \in Hosts, port \in Ports}
    /\ conn = [live |-> FALSE]
    /\ pc = [t \in Tasks |-> "idle"]
    /\ call = [t \in Tasks |-> NoCall]
    /\ tyIn = None /\ tyOut = NoOut
    /\ row = <<>> /\ row0 = <<>> /\ rowGet = NoOut
    /\ nbody = InvalidJson /\ nout = NoOut

pureVars == <<tyIn, tyOut, row, row0, rowGet, nbody, nout>>

SetScheme(scheme) ==
    /\ BuilderFree
    /\ opts' = ConnectOptions_scheme(opts, scheme)
    /\ UNCHANGED <<conn, pc, call, pureVars>>

SetUser(u) ==
    /\ BuilderFree
    /\ opts' = ConnectOptions_user(opts, u)
    /\ UNCHANGED <<conn, pc, call, pureVars>>

SetPass(p) ==
    /\ BuilderFree
    /\ opts' = ConnectOptions_pass(opts, p)
    /\ UNCHANGED <<conn, pc, call, pureVars>>

SetAcceptInvalidCert(accept) ==
    /\ BuilderFree
    /\ opts' = ConnectOptions_accept_invalid_cert(opts, accept)
    /\ UNCHANGED <<conn, pc, call, pureVars>>

\* connect(), up to the await of TcpStream::connect.
ConnectStart(t) ==
    /\ pc[t] = "idle"
    /\ BuilderFree
    /\ pc' = [pc EXCEPT ![t] = "connect_tcp"]
    /\ UNCHANGED <<opts, conn, call, pureVars>>

\* TcpStream::connect answers.  An error is returned to the caller.  With the
\* stream, HTTP goes on to the handshake; HTTPS builds the TLS connector,
\* whose failure panics (unwrap), and goes on to the TLS connect.
ConnectTcp(t, outcome) ==
    /\ pc[t] = "connect_tcp"
    /\ outcome # "err" => HostResolves(opts.host)
    /\ outcome = "panic" => opts.scheme = "HTTPS"
    /\ pc' = [pc EXCEPT ![t] =
                CASE outcome = "err" -> "idle"
                  [] outcome = "panic" -> "panicked"
                  [] outcome = "ok" -> IF opts.scheme = "HTTPS" THEN "connect_tls"
                                                                ELSE "connect_handshake"]
    /\ UNCHANGED <<opts, conn, call, pureVars>>

\* cx.connect answers: the TLS stream, or an error returned to the caller.
ConnectTls(t, ok) ==
    /\ pc[t] = "connect_tls"
    /\ pc' = [pc EXCEPT ![t] = IF ok THEN "connect_handshake" ELSE "idle"]
    /\ UNCHANGED <<opts, conn, call, pureVars>>

\* conn::handshake answers: an error is returned to the caller; otherwise the
\* driver is spawned and the new Connection returned.  The model follows one
\* Connection: the new one takes its place when the application keeps it
\* there (which it can only while nothing borrows the old one), and is held
\* elsewhere otherwise.
ConnectHandshake(t, ok, keep) ==
    /\ pc[t] = "connect_handshake"
    /\ (ok /\ keep) => \A u \in Tasks : ~HoldsConn(u)
    /\ conn' = IF ok /\ keep THEN ConnectOptions_connect(opts) ELSE conn
    /\ pc' = [pc EXCEPT ![t] = "idle"]
    /\ UNCHANGED <<opts, call, pureVars>>

\* The spawned driver task ends (con.await returns); its result is discarded.
DriverExit ==
    /\ conn.live
    /\ conn.driver = "running"
    /\ conn' = [conn EXCEPT !.driver = "terminated"]
    /\ UNCHANGED <<opts, pc, call, pureVars>>

\* A call, up to the await of send_request.
Begin(t, op, arg, rq) ==
    /\ conn.live
    /\ CanBorrowMut(t)
    /\ LET built == request_build(rq.builder, rq.body)
           c == [op |-> op, arg |-> arg, reqs |-> <<>>,
                 dead |-> conn.driver = "terminated", failed |-> Failed,
                 answer |-> None, resp |-> None, res |-> Pending]
       IN  IF built.ok
           THEN /\ pc' = [pc EXCEPT ![t] = "awaiting"]
                /\ call' = [call EXCEPT ![t] = [c EXCEPT !.reqs = <<built.val>>]]
           ELSE /\ pc' = [pc EXCEPT ![t] = "returned"]
                /\ call' = [call EXCEPT ![t] = [c EXCEPT !.res = built]]
    /\ UNCHANGED <<opts, conn, pureVars>>

CallReady(t) == conn.live /\ Begin(t, "ready", None, ready_request(conn.settings))

CallRemove(t, id) ==
    conn.live /\ Begin(t, "remove", Some(id), remove_request(conn.settings, id))

CallNodes(t, show_nonvoters) ==
    conn.live /\ Begin(t, "nodes", Some(show_nonvoters),
                       nodes_request(conn.settings, show_nonvoters))

CallExecute(t, stmt) ==
    conn.live /\ Begin(t, "execute", Some(stmt), execute_request(conn.settings, stmt))

\* Connection::cursor: the Cursor borrows the Connection until it is dropped.
CursorOpen(t) ==
    /\ conn.live
    /\ CanBorrowMut(t)
    /\ pc' = [pc EXCEPT ![t] = "cursor"]
    /\ UNCHANGED <<opts, conn, call, pureVars>>

DropCursor(t) ==
    /\ pc[t] = "cursor"
    /\ pc' = [pc EXCEPT ![t] = "idle"]
    /\ UNCHANGED <<opts, conn, call, pureVars>>

\* The call once request() has returned r: ready() and remove() return;
\* nodes() and execute() return its error, or go on to await read_body with
\* the response in `resp`.
AfterRequest(c, r) ==
    CASE c.op = "ready" -> [pc |-> "returned", call |-> [c EXCEPT !.res = ready_finish(r)]]
      [] c.op = "remove" -> [pc |-> "returned", call |-> [c EXCEPT !.res = remove_finish(r)]]
      [] c.op \in {"nodes", "execute"} ->
            IF r.ok THEN [pc |-> "reading", call |-> [c EXCEPT !.resp = Some(r.val)]]
            ELSE [pc |-> "returned", call |-> [c EXCEPT !.res = r]]

\* send_request answers with an error: always once the driver has terminated;
\* while it runs, either the connection broke (and the driver ends with it)
\* or only this request was refused.
SendFails(t, fatal) ==
    /\ pc[t] = "awaiting"
    /\ conn.driver = "terminated" => fatal
    /\ conn' = [conn EXCEPT !.sendFailed = TRUE,
                            !.driver = IF fatal THEN "terminated" ELSE @]
    /\ LET next == AfterRequest(call[t], request_finish(Err("hyper")))
       IN  /\ pc' = [pc EXCEPT ![t] = next.pc]
           /\ call' = [call EXCEPT ![t] = next.call]
    /\ UNCHANGED <<opts, pureVars>>

\* send_request answers with the head of a response, whose body is b.
Respond(t, status, b) ==
    /\ pc[t] = "awaiting"
    /\ conn.driver = "running"
    /\ LET answer == [status |-> status, body |-> b]
           next == AfterRequest([call[t] EXCEPT !.answer = Some(answer)],
                                request_finish(Ok(answer)))
       IN  /\ pc' = [pc EXCEPT ![t] = next.pc]
           /\ call' = [call EXCEPT ![t] = next.call]
           /\ conn' = [conn EXCEPT !.recovered =
                          @ \/ (call[t].failed /\ request_finish(Ok(answer)).ok)]
    /\ UNCHANGED <<opts, pureVars>>

\* to_bytes answers, with the bytes of the body or with an error, and the
\* call runs to its end.
ReadBody(t, ok) ==
    /\ pc[t] = "reading"
    /\ LET got == IF ok THEN Ok(call[t].resp.v.body) ELSE Err("hyper")
       IN  call' = [call EXCEPT ![t].res = IF call[t].op = "nodes" THEN nodes_decode(got)
                                           ELSE execute_decode(got)]
    /\ pc' = [pc EXCEPT ![t] = "returned"]
    /\ UNCHANGED <<opts, conn, pureVars>>

\* The caller takes the result: the borrow ends, unless the result is the
\* Cursor that execute() returns.
Return(t) ==
    /\ pc[t] = "returned"
    /\ pc' = [pc EXCEPT ![t] = IF call[t].op = "execute" /\ call[t].res.ok
                               THEN "cursor" ELSE "idle"]
    /\ call' = [call EXCEPT ![t] = NoCall]
    /\ UNCHANGED <<opts, conn, pureVars>>

\* The caller drops the future of a pending connect() or call: it ends where
\* it was suspended, and its borrow with it.
DropFuture(t) ==
    /\ pc[t] \in Connecting \cup {"awaiting", "reading"}
    /\ pc' = [pc EXCEPT ![t] = "idle"]
    /\ call' = [call EXCEPT ![t] = NoCall]
    /\ UNCHANGED <<opts, conn, pureVars>>

Next ==
    \/ \E scheme \in Schemes : SetScheme(scheme)
    \/ \E u \in Users : SetUser(u)
    \/ \E p \in Passes : SetPass(p)
    \/ \E accept \in BOOLEAN : SetAcceptInvalidCert(accept)
    \/ \E t \in Tasks : ConnectStart(t)
    \/ \E t \in Tasks, outcome \in {"err", "ok", "panic"} : ConnectTcp(t, outcome)
    \/ \E t \in Tasks, ok \in BOOLEAN : ConnectTls(t, ok)
    \/ \E t \in Tasks, ok \in BOOLEAN, keep \in BOOLEAN : ConnectHandshake(t, ok, keep)
    \/ DriverExit
    \/ \E t \in Tasks : CallReady(t)
    \/ \E t \in Tasks, id \in NodeIds : CallRemove(t, id)
    \/ \E t \in Tasks, nv \in BOOLEAN : CallNodes(t, nv)
    \/ \E t \in Tasks, stmt \in Statements : CallExecute(t, stmt)
    \/ \E t \in Tasks : CursorOpen(t)
    \/ \E t \in Tasks : DropCursor(t)
    \/ \E t \in Tasks, fatal \in BOOLEAN : SendFails(t, fatal)
    \/ \E t \in Tasks, status \in Statuses, b \in Bodies : Respond(t, status, b)
    \/ \E t \in Tasks, ok \in BOOLEAN : ReadBody(t, ok)
    \/ \E t \in Tasks : Return(t)
    \/ \E t \in Tasks : DropFuture(t)

Spec == Init /\ [][Next]_vars

----------------------------------------------------------------------------
(* The specifications of the three pure parts.   Each starts from every    *)
(* input within its bounds and applies the function; the variables of the *)
(* other specifications stay parked.                                       *)

ParkedConn ==
    /\ opts = ConnectOptions_new(<<49, 50, 55, 46, 48, 46, 48, 46, 49>>, 4001)
    /\ conn = [live |-> FALSE]
    /\ pc = [t \in Tasks |-> "idle"]
    /\ call = [t \in Tasks |-> NoCall]
ParkedTypes == tyIn = None /\ tyOut = NoOut
ParkedRow == row = <<>> /\ row0 = <<>> /\ rowGet = NoOut
ParkedNodes == nbody = InvalidJson /\ nout = NoOut

connVars == <<opts, conn, pc, call>>
typesVars == <<tyIn, tyOut>>
rowVars == <<row, row0, rowGet>>
nodesVars == <<nbody, nout>>

(* SpecTypes *)
InitTypes ==
    /\ tyIn \in {None} \cup {Some(s) : s \in SeqsUpTo(Tags, MaxTypes)}
    /\ tyOut = NoOut
    /\ ParkedConn /\ ParkedRow /\ ParkedNodes

\* get_type on one tag.
GetType(tag) ==
    /\ tyOut.kind = "none"
    /\ tyOut' = [kind |-> "tag", tag |-> tag, res |-> get_type(tag)]
    /\ UNCHANGED <<tyIn, connVars, rowVars, nodesVars>>

\* parse_vec_types on the list.
ParseVecTypes ==
    /\ tyOut.kind = "none"
    /\ tyOut' = [kind |-> "list", res |-> parse_vec_types(tyIn)]
    /\ UNCHANGED <<tyIn, connVars, rowVars, nodesVars>>

NextTypes == (\E tag \in Tags : GetType(tag)) \/ ParseVecTypes

SpecTypes == InitTypes /\ [][NextTypes]_vars

(* SpecRow *)
InitRow ==
    /\ row \in {Row_new(vs) : vs \in SeqsUpTo(RowValues, MaxRow)}
    /\ row0 = row
    /\ rowGet = NoOut
    /\ ParkedConn /\ ParkedTypes /\ ParkedNodes

\* Row::get takes &self: the values are read, not written.
Get(id, T) ==
    /\ rowGet' = [kind |-> "get", id |-> id, T |-> T, res |-> Row_get(row, id, T)]
    /\ UNCHANGED <<row, row0, connVars, typesVars, nodesVars>>

NextRow == \E id \in 0..MaxIndex, T \in GetTypes : Get(id, T)

SpecRow == InitRow /\ [][NextRow]_vars

(* SpecNodes *)
InitNodes ==
    /\ nbody \in NodeBodies
    /\ nout = NoOut
    /\ ParkedConn /\ ParkedTypes /\ ParkedRow

\* nodes() from read_body on: the bytes arrive (read) or to_bytes fails.
NodesDecode(read) ==
    /\ nout.kind = "none"
    /\ nout' = [kind |-> "done", read |-> read,
                res |-> nodes_decode(IF read THEN Ok(nbody) ELSE Err("hyper"))]
    /\ UNCHANGED <<nbody, connVars, typesVars, rowVars>>

NextNodes == \E read \in BOOLEAN : NodesDecode(read)

SpecNodes == InitNodes /\ [][NextNodes]_vars

----------------------------------------------------------------------------
(* Claims about the pure parts *)

KnownTags == {"", "integer", "real", "text", "blob"}
TypeOfTag(tag) ==
    CASE tag = "" -> "Null" [] tag = "integer" -> "Integer" [] tag = "real" -> "Real"
      [] tag = "text" -> "Text" [] tag = "blob" -> "Blob"

\* C6: each tag in {"", "integer", "real", "text", "blob"} parses to Null,
\* Integer, Real, Text, Blob respectively and any other tag (other letter case
\* included) is refused; a list parses to one type per tag in the same order,
\* and a list holding an unknown tag fails as a whole with an error that
\* names that tag.
C6_TypeParsing ==
    /\ tyOut.kind = "tag" =>
          IF tyOut.tag \in KnownTags
          THEN tyOut.res = Ok(TypeOfTag(tyOut.tag))
          ELSE ~tyOut.res.ok
    /\ (tyOut.kind = "list" /\ tyIn.some) =>
          IF \A i \in DOMAIN tyIn.v : tyIn.v[i] \in KnownTags
          THEN /\ tyOut.res.ok
               /\ tyOut.res.val.some
               /\ Len(tyOut.res.val.v) = Len(tyIn.v)
               /\ \A i \in DOMAIN tyIn.v : tyOut.res.val.v[i] = TypeOfTag(tyIn.v[i])
          ELSE /\ ~tyOut.res.ok
               /\ tyOut.res.err.tag \notin KnownTags
               /\ \E i \in DOMAIN tyIn.v :
                     /\ tyIn.v[i] = tyOut.res.err.tag
                     /\ \A j \in 1..(i - 1) : tyIn.v[j] \in KnownTags

\* A three-tag list whose last tag differs from a known one only by case was
\* refused, naming it.
C6_Witness ==
    /\ tyOut.kind = "list"
    /\ tyIn.some
    /\ tyIn.v = <<"", "blob", "INTEGER">>
    /\ ~tyOut.res.ok
    /\ tyOut.res.err.tag = "INTEGER"

\* C7: Row.get(index) with index >= the row's length (any index on an empty
\* row included) returns the bounds error naming the index and does not
\* panic; the row's values are those it was built with after any get.
C7_GetBounds ==
    /\ row = row0
    /\ rowGet.kind = "get" =>
          /\ rowGet.res # Panic
          /\ rowGet.id >= Len(row) =>
                /\ ~rowGet.res.ok
                /\ rowGet.res.err.kind = "NotFound"
                /\ rowGet.res.err.id = rowGet.id

\* get(2) on a two-value row returned the bounds error for index 2.
C7_Witness ==
    /\ rowGet.kind = "get"
    /\ Len(row) = 2
    /\ rowGet.id = 2
    /\ rowGet.res = Err([kind |-> "NotFound", id |-> 2])

\* The field f of a node description, in map or in sequence form.
C8_Field(v, f) ==
    IF v.t = "obj" THEN v.o[f]
    ELSE v.a[CHOOSE i \in DOMAIN NodeFields : NodeFields[i] = f]

\* The f32 nearest to each latency tried: 0.000037026 is 10177629 * 2^-38,
\* 2^24 + 1 rounds down to 2^24, and 2^25 + 6 up to 2^25 + 8.
C8_NearestF32(x) ==
    CASE x = JFloat(FALSE, 40710517, 71139983, 0 - 67) -> F32(FALSE, 10177629, 0 - 38)
      [] x = JNum(2^24 + 1) -> F32(FALSE, 1, 24)
      [] x = JNum(2^25 + 6) -> F32(FALSE, 4194305, 3)
      [] x = JNum(1) -> F32(FALSE, 1, 0)

\* Whether Node n is the description v stored under key k.
C8_Describes(n, k, v) ==
    /\ n.id = k
    /\ n.api_addr = C8_Field(v, api_addr).s
    /\ n.addr = C8_Field(v, addr).s
    /\ n.reachable = C8_Field(v, reachable).b
    /\ n.leader = C8_Field(v, leader).b
    /\ n.time = C8_NearestF32(C8_Field(v, time))

\* C8: when the body is a JSON object, nodes() returns exactly one Node per
\* key, with the key as id and the fields of the key's value; one value that
\* does not deserialize makes the call fail with DataSer (no partial list);
\* a top-level value that is not an object makes it fail with SqlError.
C8_Nodes ==
    (nout.kind = "done" /\ nout.read /\ nbody.valid) =>
        IF nbody.json.t = "obj"
        THEN LET o == nbody.json.o
             IN  IF \A k \in DOMAIN o : node_from_value(o[k]).ok
                 THEN /\ nout.res.ok
                      /\ Len(nout.res.val) = Cardinality(DOMAIN o)
                      /\ \A k \in DOMAIN o :
                            \E i \in DOMAIN nout.res.val :
                                C8_Describes(nout.res.val[i], k, o[k])
                 ELSE nout.res = Err(DataSer)
        ELSE nout.res = Err(SqlError)

\* A three-key map gave three Nodes, and a map with one bad value gave DataSer.
C8_Witness ==
    /\ nout.kind = "done"
    /\ nout.read /\ nbody.valid /\ nbody.json.t = "obj"
    /\ DOMAIN nbody.json.o = NodeKeys
    /\ nbody.json.o[<<49, 48>>] = SeqNode
    /\ nbody.json.o[<<50>>] = GoodNode2
    /\ \/ nbody.json.o[<<49>>] = GoodNode1 /\ nout.res.ok /\ Len(nout.res.val) = 3
       \/ nbody.json.o[<<49>>] = NoTimeNode /\ nout.res = Err(DataSer)

----------------------------------------------------------------------------
(* Claims about the Connection *)

IsErr(r, kind) == ~r.ok /\ r.err.kind = kind
Answered(t) == pc[t] = "returned" /\ call[t].answer.some
StatusOf(t) == call[t].answer.v.status

\* C1: whichever call (nodes, ready, remove, execute) and whatever the body,
\* a response with status 401 makes the call return AuthError (without
\* reading the body), and no call returns AuthError after any other status
\* (or without a response).
C1_AuthErrorIff401 ==
    \A t \in Tasks :
        /\ pc[t] = "returned" =>
              (IsErr(call[t].res, "AuthError") <=> (call[t].answer.some /\ StatusOf(t) = 401))
        /\ (pc[t] = "reading" /\ call[t].answer.some) => StatusOf(t) # 401

\* nodes() got 401 with a body that is a well-formed node map, and returned
\* AuthError.
C1_Witness ==
    \E t \in Tasks :
        /\ Answered(t)
        /\ call[t].op = "nodes"
        /\ StatusOf(t) = 401
        /\ call[t].answer.v.body = Body(TRUE, JObj(<<49>> :> GoodNode1))
        /\ call[t].res = Err(AuthError)

\* C2 as stated: ready() returns Ok(true) when the status is 200 and Ok(false),
\* never an error, for every other status.
C2_ReadyFalseForAnyOther ==
    \A t \in Tasks :
        (Answered(t) /\ call[t].op = "ready") =>
            /\ call[t].res.ok
            /\ call[t].res.val = (StatusOf(t) = 200)

\* C2 as amended: ready() returns Ok(true) exactly on status 200, AuthError on
\* 401, and Ok(false) without an error on every other status.
C2_ReadyExcept401 ==
    \A t \in Tasks :
        (Answered(t) /\ call[t].op = "ready") =>
            IF StatusOf(t) = 401
            THEN call[t].res = Err(AuthError)
            ELSE /\ call[t].res.ok
                 /\ call[t].res.val = (StatusOf(t) = 200)

\* ready() has returned false, and no error, on status 503.
C2_Witness ==
    \E t \in Tasks :
        /\ Answered(t)
        /\ call[t].op = "ready"
        /\ StatusOf(t) = 503
        /\ call[t].res = Ok(FALSE)

\* Reading back the text of a request body as the JSON object {"id": <string>}:
\* the string, or None when the text is not of that shape.  A string ends at
\* the quote, holds no raw character below the space, and its escapes are
\* \" \\ \/ \b \t \n \f \r and \u followed by four hex digits.
C3_Unhex(c) == IF c >= 97 THEN c - 87 ELSE IF c >= 65 THEN c - 55 ELSE c - 48

C3_Unescape(c) ==
    CASE c = 98 -> 8 [] c = 116 -> 9 [] c = 110 -> 10 [] c = 102 -> 12 [] c = 114 -> 13
      [] OTHER -> c

RECURSIVE C3_ReadString(_, _, _)
C3_ReadString(text, i, acc) ==
    IF i > Len(text) THEN None
    ELSE IF text[i] = 34 THEN Some([s |-> acc, next |-> i + 1])
    ELSE IF text[i] < 32 THEN None
    ELSE IF text[i] = 92
         THEN IF i + 1 > Len(text) THEN None
              ELSE IF text[i + 1] = 117
                   THEN IF i + 5 > Len(text) THEN None
                        ELSE C3_ReadString(text, i + 6,
                                Append(acc, 4096 * C3_Unhex(text[i + 2])
                                            + 256 * C3_Unhex(text[i + 3])
                                            + 16 * C3_Unhex(text[i + 4])
                                            + C3_Unhex(text[i + 5])))
                   ELSE IF text[i + 1] \in {34, 92, 47, 98, 116, 110, 102, 114}
                        THEN C3_ReadString(text, i + 2, Append(acc, C3_Unescape(text[i + 1])))
                        ELSE None
    ELSE C3_ReadString(text, i + 1, Append(acc, text[i]))

C3_ReadIdObject(text) ==
    IF Len(text) < 8 \/ SubSeq(text, 1, 7) # <<123, 34, 105, 100, 34, 58, 34>>
    THEN None
    ELSE LET r == C3_ReadString(text, 8, <<>>)
         IN  IF r.some /\ r.v.next = Len(text) /\ text[Len(text)] = 125
             THEN Some(r.v.s) ELSE None

\* C3: remove(id) hands exactly one request to the channel, a DELETE to
\* /remove whose body reads as the JSON object {"id": id}; it returns true
\* when the status is 200 and false on the other statuses passed through.
C3_Remove ==
    \A t \in Tasks :
        call[t].op = "remove" =>
            /\ Len(call[t].reqs) = 1
            /\ call[t].reqs[1].method = "DELETE"
            /\ call[t].reqs[1].uri = "/remove"
            /\ C3_ReadIdObject(call[t].reqs[1].body) = Some(call[t].arg.v)
            /\ Answered(t) =>
                  /\ call[t].res.ok => call[t].res.val = (StatusOf(t) = 200)
                  /\ StatusOf(t) # 401 => call[t].res.ok

\* remove of an id holding a quote, a backslash, a tab and U+0001 returned
\* true on 200.
C3_Witness ==
    \E t \in Tasks :
        /\ Answered(t)
        /\ call[t].op = "remove"
        /\ call[t].arg.v = <<110, 117, 109, 53, 34, 92, 9, 1>>
        /\ StatusOf(t) = 200
        /\ call[t].res = Ok(TRUE)

\* Reading a base64 text back into bytes: the value of a character of the
\* standard alphabet (A-Z, a-z, 0-9, + and /).
C4_Sextet(c) ==
    CASE c \in 65..90 -> c - 65
      [] c \in 97..122 -> c - 71
      [] c \in 48..57 -> c + 4
      [] c = 43 -> 62
      [] c = 47 -> 63

RECURSIVE C4_Decode(_)
C4_Decode(text) ==
    IF Len(text) < 4 THEN <<>>
    ELSE LET a == C4_Sextet(text[1])
             b == C4_Sextet(text[2])
             rest == C4_Decode(SubSeq(text, 5, Len(text)))
         IN  IF text[3] = 61 THEN <<a * 4 + b \div 16>>
             ELSE LET c == C4_Sextet(text[3])
                  IN  IF text[4] = 61
                      THEN <<a * 4 + b \div 16, (b % 16) * 16 + c \div 4>>
                      ELSE <<a * 4 + b \div 16, (b % 16) * 16 + c \div 4,
                             (c % 4) * 64 + C4_Sextet(text[4])>> \o rest

\* C4: a request carries an Authorization header exactly when the settings
\* the Connection was created with hold both a username and a password; the
\* header is "Basic " and the base64 of user:pass from those settings,
\* whatever setter calls were made on the builder before or after connect().
C4_BasicAuthIffBoth ==
    \A t \in Tasks :
        \A i \in DOMAIN call[t].reqs :
            LET h == call[t].reqs[i].headers
                st == conn.settings
            IN  /\ ("Authorization" \in DOMAIN h) <=> (st.user.some /\ st.pass.some)
                /\ "Authorization" \in DOMAIN h =>
                      LET value == h["Authorization"]
                          credential == SubSeq(value, 7, Len(value))
                      IN  /\ Len(value) >= 6
                          /\ SubSeq(value, 1, 6) = <<66, 97, 115, 105, 99, 32>>
                          /\ Len(credential) % 4 = 0
                          /\ C4_Decode(credential) = st.user.v \o <<58>> \o st.pass.v

\* A request went out on an HTTPS Connection created with "ab":"pw", carrying
\* their credential ("YWI6cHc="), after the builder had been changed again.
C4_Witness ==
    \E t \in Tasks :
        /\ call[t].reqs # <<>>
        /\ conn.settings.user = Some(<<97, 98>>)
        /\ conn.settings.pass = Some(<<112, 119>>)
        /\ conn.settings.scheme = "HTTPS"
        /\ conn.settings.accept_invalid_cert
        /\ opts # conn.settings
        /\ "Authorization" \in DOMAIN call[t].reqs[1].headers
        /\ call[t].reqs[1].headers["Authorization"] = <<66, 97, 115, 105, 99, 32, 89, 87, 73, 54, 99, 72, 99, 61>>

\* C5 as stated: a request of a call that began when the Connection was
\* already Failed (its driver terminated, or an earlier send on it returned
\* an error) returns a ConnectionError.
C5_FailedIsFinal ==
    \A t \in Tasks :
        (pc[t] = "returned" /\ call[t].failed /\ call[t].reqs # <<>>) =>
            IsErr(call[t].res, "Connection")

\* C5 as amended: a request sent once the driver task has terminated returns
\* a ConnectionError (it gets no response), and the driver of that Connection
\* stays terminated.
C5_DriverTerminatedIsFinal ==
    \A t \in Tasks :
        call[t].dead =>
            /\ conn.driver = "terminated"
            /\ ~call[t].answer.some
            /\ pc[t] \in {"awaiting", "returned"}
            /\ (pc[t] = "returned" /\ call[t].reqs # <<>>) =>
                  IsErr(call[t].res, "Connection")

\* On one Connection a send returned an error while the driver was running,
\* a request sent after it was answered, then the driver terminated and the
\* request made after that has returned its error.
C5_Witness ==
    \E t \in Tasks :
        /\ conn.live
        /\ conn.recovered
        /\ pc[t] = "returned"
        /\ call[t].dead
        /\ call[t].op = "ready"
        /\ call[t].reqs # <<>>
        /\ call[t].res = Err(ConnectionError)

\* C9: a call hands at most one request to the channel; a call that returns
\* DataSer without a response (its body or its request could not be built)
\* has sent nothing; a call whose send failed returns the ConnectionError to
\* the caller, after that one request and no other, and goes no further.
C9_NoRetry ==
    \A t \in Tasks :
        /\ Len(call[t].reqs) <= 1
        /\ (pc[t] = "returned" /\ ~call[t].answer.some /\ IsErr(call[t].res, "DataSer")) =>
              call[t].reqs = <<>>
        /\ (pc[t] \in {"reading", "returned"} /\ ~call[t].answer.some
                /\ call[t].reqs # <<>>) =>
              /\ pc[t] = "returned"
              /\ call[t].res = Err(ConnectionError)

\* A send failed while the driver was running and the call returned the
\* ConnectionError after its one request.
C9_Witness ==
    \E t \in Tasks :
        /\ pc[t] = "returned"
        /\ ~call[t].dead
        /\ ~call[t].answer.some
        /\ Len(call[t].reqs) = 1
        /\ call[t].res = Err(ConnectionError)

\* C10: at most one task is inside a call or holds a Cursor at any time, so
\* at most one request is in flight on the Connection.
C10_OneInFlight ==
    \A t, u \in Tasks :
        (t # u /\ HoldsConn(t)) => ~HoldsConn(u)

\* A task holds the Cursor execute() returned; another is idle, kept out.
C10_Witness ==
    \E t, u \in Tasks :
        /\ t # u
        /\ pc[t] = "cursor"
        /\ pc[u] = "idle"
        /\ ~ENABLED CallReady(u)

============================================================================
